---- MODULE Spec2Model ----
(***************************************************************************)
(* A model of DFComparator (compare_data.py): the schema diff, the type    *)
(* compatibility classifier, the value diff with its unchanged-row filter, *)
(* the direct-index path and the merge fallback, and the regression flag.  *)
(*                                                                         *)
(* A table is a record                                                     *)
(*   columns : the column names, in order (no name twice)                  *)
(*   dtypes  : column name -> type descriptor (a tuple of characters)      *)
(*   index   : the names of the columns that were moved into the index by  *)
(*             set_index (<<>> for the default index)                      *)
(*   rows    : the rows, in order; each a function from the names in       *)
(*             columns and index to a cell value                           *)
(* A cell value is a positive integer or the missing marker NA; a typed    *)
(* value is abstracted to the integer it compares equal to (10 and 10.0    *)
(* are the same value).                                                    *)
(* A percentage is held in hundredths (50.0 is 5000, 33.33 is 3333).       *)
(***************************************************************************)
EXTENDS Integers, Sequences, FiniteSets, TLC

VARIABLES
    current,       \* self.current
    previous,      \* self.previous
    primary_keys,  \* self.primary_keys
    df_current,    \* the table object the caller passed as df_current
    df_previous,   \* the table object the caller passed as df_previous
    held,          \* TRUE while self.current / self.previous are those objects
    schema_diff,   \* the result of the last compare_schema
    stats,         \* the result of the last generate_statistics, if it returned
    raised,        \* the exception the last call raised: [exc, key]
    op,            \* the last call made
    path,          \* the path the last compare_values took
    pre,           \* the tables as they were when the last call was made
    ncalls,        \* calls of generate_statistics so far (counted up to two)
    first_stats,   \* what the first call of generate_statistics did
    dtype1, dtype2, compatible  \* the classifier's arguments and result

vars == <<current, previous, primary_keys, df_current, df_previous, held,
          schema_diff, stats, raised, op, path, pre, ncalls,
          first_stats, dtype1, dtype2, compatible>>

\* The longest table the inputs are drawn from.
MaxRows == 2

\* The missing value (NaN / None): isna() is true of it and of nothing else.
NA == 0

Range(s) == {s[i] : i \in 1..Len(s)}

\* ------------------------------------------------------------------------
\* Type descriptors: str(dtype), a string, held as its characters.
\* ------------------------------------------------------------------------
T_int64 == <<"i", "n", "t", "6", "4">>
T_float64 == <<"f", "l", "o", "a", "t", "6", "4">>
T_object == <<"o", "b", "j", "e", "c", "t">>
T_bool == <<"b", "o", "o", "l">>
T_uint8 == <<"u", "i", "n", "t", "8">>
T_Int64 == <<"I", "n", "t", "6", "4">>
T_string == <<"s", "t", "r", "i", "n", "g">>
T_String == <<"S", "t", "r", "i", "n", "g">>
T_str == <<"s", "t", "r">>
T_datetime64 == <<"d", "a", "t", "e", "t", "i", "m", "e", "6", "4", "[", "n", "s", "]">>
T_Timestamp == <<"T", "i", "m", "e", "s", "t", "a", "m", "p">>
T_timedelta64 == <<"t", "i", "m", "e", "d", "e", "l", "t", "a", "6", "4", "[", "n", "s", "]">>
T_category == <<"c", "a", "t", "e", "g", "o", "r", "y">>
T_Category == <<"C", "a", "t", "e", "g", "o", "r", "y">>
T_period == <<"p", "e", "r", "i", "o", "d", "[", "M", "]">>

\* The descriptors the classifier is exercised on.
Descriptors ==
    {T_int64, T_float64, T_object, T_bool, T_uint8, T_Int64, T_string, T_String,
     T_str, T_datetime64, T_Timestamp, T_timedelta64, T_category, T_Category,
     T_period}

UpperCase == <<"A", "B", "C", "D", "E", "F", "G", "H", "I", "J", "K", "L", "M",
               "N", "O", "P", "Q", "R", "S", "T", "U", "V", "W", "X", "Y", "Z">>
LowerCase == <<"a", "b", "c", "d", "e", "f", "g", "h", "i", "j", "k", "l", "m",
               "n", "o", "p", "q", "r", "s", "t", "u", "v", "w", "x", "y", "z">>

\* str.lower() of one character.
LowerChar(ch) ==
    IF \E i \in 1..Len(UpperCase) : UpperCase[i] = ch
    THEN LowerCase[CHOOSE i \in 1..Len(UpperCase) : UpperCase[i] = ch]
    ELSE ch

\* str.lower()
Lower(s) == [i \in 1..Len(s) |-> LowerChar(s[i])]

\* The substring test `t in s`.
Contains(s, t) ==
    \E i \in 0..(Len(s) - Len(t)) : SubSeq(s, i + 1, i + Len(t)) = t

numeric_types == {<<"i", "n", "t">>, <<"u", "i", "n", "t">>,
                  <<"f", "l", "o", "a", "t">>, <<"b", "o", "o", "l">>}
string_types == {<<"o", "b", "j", "e", "c", "t">>, <<"s", "t", "r", "i", "n", "g">>,
                 <<"s", "t", "r">>}
datetime_types == {<<"d", "a", "t", "e", "t", "i", "m", "e">>,
                   <<"d", "a", "t", "e", "t", "i", "m", "e", "6", "4">>,
                   <<"t", "i", "m", "e", "s", "t", "a", "m", "p">>}

\* any(t in s for t in family)
AnyIn(family, s) == \E t \in family : Contains(s, t)

\* A classifier that forgets to lowercase its arguments.
are_types_compatible_nolower(d1, d2) ==
    \/ AnyIn(numeric_types, d1) /\ AnyIn(numeric_types, d2)
    \/ AnyIn(string_types, d1) /\ AnyIn(string_types, d2)
    \/ AnyIn(datetime_types, d1) /\ AnyIn(datetime_types, d2)
    \/ d1 = d2

\* DFComparator._are_types_compatible
are_types_compatible(d1, d2) ==
    LET dtype1_str == Lower(d1)
        dtype2_str == Lower(d2)
        is_numeric1 == AnyIn(numeric_types, dtype1_str)
        is_numeric2 == AnyIn(numeric_types, dtype2_str)
        is_string1 == AnyIn(string_types, dtype1_str)
        is_string2 == AnyIn(string_types, dtype2_str)
        is_datetime1 == AnyIn(datetime_types, dtype1_str)
        is_datetime2 == AnyIn(datetime_types, dtype2_str)
    IN  IF is_numeric1 /\ is_numeric2 THEN TRUE
        ELSE IF is_string1 /\ is_string2 THEN TRUE
        ELSE IF is_datetime1 /\ is_datetime2 THEN TRUE
        ELSE IF dtype1_str = dtype2_str THEN TRUE
        ELSE FALSE

\* ------------------------------------------------------------------------
\* compare_schema
\* ------------------------------------------------------------------------
\* A schema diff that takes the common columns for the removed ones.
compare_schema_swapped(cur, prev) ==
    LET current_cols == Range(cur.columns)
        previous_cols == Range(prev.columns)
    IN  [added_columns |-> current_cols \ previous_cols,
         removed_columns |-> previous_cols \cap current_cols,
         type_changes |->
             [col \in {c \in current_cols \cap previous_cols :
                          cur.dtypes[c] # prev.dtypes[c]} |->
                 [previous |-> prev.dtypes[col], current |-> cur.dtypes[col]]],
         total_columns_current |-> Len(cur.columns),
         total_columns_previous |-> Len(prev.columns)]

\* DFComparator.compare_schema: the lists built from sets are held as sets.
compare_schema(cur, prev) ==
    LET current_cols == Range(cur.columns)
        previous_cols == Range(prev.columns)
        added_cols == current_cols \ previous_cols
        removed_cols == previous_cols \ current_cols
        common_cols == current_cols \cap previous_cols
    IN  [added_columns |-> added_cols,
         removed_columns |-> removed_cols,
         type_changes |->
             [col \in {c \in common_cols : cur.dtypes[c] # prev.dtypes[c]} |->
                 [previous |-> prev.dtypes[col], current |-> cur.dtypes[col]]],
         total_columns_current |-> Len(cur.columns),
         total_columns_previous |-> Len(prev.columns)]

\* ------------------------------------------------------------------------
\* compare_values
\* ------------------------------------------------------------------------
\* The value the marker column holds in the current table's rows.
ORIGIN_CURRENT == 1
\* The value the marker column holds in the previous table's rows.
ORIGIN_PREVIOUS == 2

Project(r, cs) == [c \in cs |-> r[c]]

\* s == NA-aware: a comparison with a missing value is False.
ElemEq(x, y) == x # NA /\ y # NA /\ x = y

\* An equality under which two missing values differ.
NullUnsafeEq(x, y) == ElemEq(x, y)

\* (s1 == s2) | (s1.isna() & s2.isna())
NullSafeEq(x, y) == ElemEq(x, y) \/ (x = NA /\ y = NA)

\* round(m / n * 100, 2), in hundredths. No m / n * 100 with n below 32 lies
\* halfway between two hundredths, so the rounding mode cannot show.
Round2(m, n) == (2 * m * 10000 + n) \div (2 * n)

\* The dtype pd.concat gives a column whose two parts have dtypes d1 and d2.
find_common_type(d1, d2) ==
    IF d1 = d2 THEN d1
    ELSE IF {d1, d2} \subseteq {T_int64, T_float64} THEN T_float64
    ELSE IF {d1, d2} \subseteq {T_int64, T_Int64} THEN T_Int64
    ELSE T_object

\* df['df_origin'] = v
AddMarker(t, v) ==
    LET cs == Range(t.columns) \cup Range(t.index) IN
    [columns |-> IF "df_origin" \in Range(t.columns) THEN t.columns
                 ELSE Append(t.columns, "df_origin"),
     dtypes |-> [c \in Range(t.columns) \cup {"df_origin"} |->
                    IF c = "df_origin" THEN T_object ELSE t.dtypes[c]],
     index |-> t.index,
     rows |-> [i \in 1..Len(t.rows) |->
                  [c \in cs \cup {"df_origin"} |->
                      IF c = "df_origin" THEN v ELSE t.rows[i][c]]]]

\* An unchanged-row filter that keeps the first of several identical rows
\* (drop_duplicates with keep='first').
KeepsRowFirst(curP, prevP, side, i) ==
    IF side = "current"
    THEN \A j \in 1..(i - 1) : curP[j] # curP[i]
    ELSE /\ \A j \in 1..Len(curP) : curP[j] # prevP[i]
         /\ \A j \in 1..(i - 1) : prevP[j] # prevP[i]

\* drop_duplicates(subset=common_cols, keep=False) on the concatenation of
\* curP and prevP: row i of `side` stays iff no other row of the
\* concatenation equals it.
KeepsRow(curP, prevP, side, i) ==
    LET r == IF side = "current" THEN curP[i] ELSE prevP[i]
        n == Cardinality({j \in 1..Len(curP) : curP[j] = r})
             + Cardinality({j \in 1..Len(prevP) : prevP[j] = r})
    IN  n = 1

\* The rows of s at the positions in keep, in order.
RECURSIVE PickRows(_, _, _)
PickRows(s, keep, i) ==
    IF i > Len(s) THEN <<>>
    ELSE IF i \in keep THEN <<s[i]>> \o PickRows(s, keep, i + 1)
    ELSE PickRows(s, keep, i + 1)

\* Lines 98-106: both tables cut down to the common comparable columns and
\* to the rows that occur once in their concatenation.
UnchangedRowFilter(cur, prev, common_cols) ==
    LET curP == [i \in 1..Len(cur.rows) |-> Project(cur.rows[i], common_cols)]
        prevP == [i \in 1..Len(prev.rows) |-> Project(prev.rows[i], common_cols)]
        \* list(set(...)) has no defined order; the current table's is taken
        cols == SelectSeq(cur.columns, LAMBDA c : c \in common_cols)
        dt == [c \in common_cols |-> find_common_type(cur.dtypes[c], prev.dtypes[c])]
    IN  [current |->
             [columns |-> cols, dtypes |-> dt, index |-> <<>>,
              rows |-> PickRows(curP, {i \in 1..Len(curP) :
                                          KeepsRow(curP, prevP, "current", i)}, 1)],
         previous |->
             [columns |-> cols, dtypes |-> dt, index |-> <<>>,
              rows |-> PickRows(prevP, {i \in 1..Len(prevP) :
                                           KeepsRow(curP, prevP, "previous", i)}, 1)]]

\* df.set_index(keys, inplace=True): the key columns leave the columns and
\* become the index (dtypes keeps their entries, which nothing reads while
\* they are in the index).
set_index(t, keys) ==
    [t EXCEPT !.index = keys,
              !.columns = SelectSeq(t.columns, LAMBDA c : c \notin Range(keys))]

\* df.reset_index(inplace=True) of a table whose index was set from columns:
\* the index columns come back in front.
reset_index(t) ==
    [t EXCEPT !.index = <<>>, !.columns = t.index \o t.columns]

\* The index labels of a table, row by row.
IndexLabels(t) ==
    [i \in 1..Len(t.rows) |-> [k \in 1..Len(t.index) |-> t.rows[i][t.index[k]]]]

\* Lines 124-126 on two identically-labelled columns: the number of
\* positions whose values are not null-safe equal.
NeqPositional(cur, prev, col) ==
    Cardinality({i \in 1..Len(cur.rows) :
                    ~NullSafeEq(cur.rows[i][col], prev.rows[i][col])})

\* A merge count without the 'both' mask: a row whose key is on one side only
\* is compared with the missing values the outer merge fills in.
NeqMergedNoMask(cur, prev, keys, col) ==
    LET SameKey(r, q) == \A k \in 1..Len(keys) : r[keys[k]] = q[keys[k]]
    IN  Cardinality({p \in (1..Len(prev.rows)) \X (1..Len(cur.rows)) :
                        /\ SameKey(prev.rows[p[1]], cur.rows[p[2]])
                        /\ ~NullSafeEq(prev.rows[p[1]][col], cur.rows[p[2]][col])})
        + Cardinality({i \in 1..Len(prev.rows) :
                        /\ \A j \in 1..Len(cur.rows) : ~SameKey(prev.rows[i], cur.rows[j])
                        /\ ~NullSafeEq(prev.rows[i][col], NA)})
        + Cardinality({j \in 1..Len(cur.rows) :
                        /\ \A i \in 1..Len(prev.rows) : ~SameKey(prev.rows[i], cur.rows[j])
                        /\ ~NullSafeEq(NA, cur.rows[j][col])})

\* Lines 140-151: the rows of the outer merge marked 'both' are the pairs
\* (previous row, current row) with equal keys; the number of them whose
\* col values are not null-safe equal.
NeqMerged(cur, prev, keys, col) ==
    Cardinality({p \in (1..Len(prev.rows)) \X (1..Len(cur.rows)) :
                    /\ \A k \in 1..Len(keys) :
                          prev.rows[p[1]][keys[k]] = cur.rows[p[2]][keys[k]]
                    /\ ~NullSafeEq(prev.rows[p[1]][col], cur.rows[p[2]][col])})

\* Lines 131-135 / 152-156: the entries of the columns whose count is not 0.
ValueChanges(cols, neq, current_len) ==
    [col \in {c \in cols : neq[c] > 0} |->
        [changed_rows |-> neq[col], percentage |-> Round2(neq[col], current_len)]]

NoChanges == [col \in {} |-> [changed_rows |-> 0, percentage |-> 0]]

\* The value diff as returned; `fields` are the keys the mapping has.
ValueDiff(fields, previous_len, current_len, pct, changes) ==
    [fields |-> fields,
     row_count_change |-> [previous |-> previous_len, current |-> current_len,
                           difference |-> current_len - previous_len],
     percentage_row_change |-> pct,
     columns_with_value_changes |-> changes]

NoValueDiff == ValueDiff({}, 0, 0, 0, NoChanges)

AllFields == {"row_count_change", "percentage_row_change", "columns_with_value_changes"}

\* What one call of compare_values does: the exception it raises ("none" when
\* it returns) with the column the message names, the value it returns, the
\* tables it leaves in self.current / self.previous, whether it wrote the
\* marker column into the tables it held on entry, and the path it took.
Outcome(exc, key, diff, cur, prev, marked, took) ==
    [raised |-> exc, key |-> key, ret |-> diff, current |-> cur,
     previous |-> prev, marked |-> marked, path |-> took]

\* Lines 110-156, on the filtered tables.
KeyedDiff(cur, prev, keys, current_len, previous_len, pct) ==
    LET missing == {k \in 1..Len(keys) : keys[k] \notin Range(cur.columns)}
        first_missing == CHOOSE k \in missing : \A j \in missing : k <= j
        icur == set_index(cur, keys)
        iprev == set_index(prev, keys)
        cols == Range(icur.columns) \ Range(keys)
        rcur == reset_index(icur)
        rprev == reset_index(iprev)
    IN  IF missing # {}
        THEN Outcome("KeyError", keys[first_missing], NoValueDiff, cur, prev,
                     TRUE, "key_missing")
        ELSE IF cols = {} \/ IndexLabels(icur) = IndexLabels(iprev)
        THEN Outcome("none", "",
                     ValueDiff(AllFields, previous_len, current_len, pct,
                               ValueChanges(cols,
                                   [c \in cols |-> NeqPositional(icur, iprev, c)],
                                   current_len)),
                     icur, iprev, TRUE, "direct")
        ELSE Outcome("none", "",
                     ValueDiff(AllFields, previous_len, current_len, pct,
                               ValueChanges(cols,
                                   [c \in cols |-> NeqMerged(rcur, rprev, keys, c)],
                                   current_len)),
                     rcur, rprev, TRUE, "merge")

\* A short circuit that subtracts the wrong way round.
RowCountOnlyReversed(cur, prev) ==
    Outcome("none", "",
            [ValueDiff({"row_count_change"}, Len(prev.rows), Len(cur.rows), 0, NoChanges)
                EXCEPT !.row_count_change.difference = Len(prev.rows) - Len(cur.rows)],
            cur, prev, FALSE, "row_count")

\* Lines 72-77: the row counts differ; nothing else is looked at.
RowCountOnly(cur, prev) ==
    Outcome("none", "",
            ValueDiff({"row_count_change"}, Len(prev.rows), Len(cur.rows), 0, NoChanges),
            cur, prev, FALSE, "row_count")

\* A reading of the type changes that excludes no column.
incompatible_type_cols_none(sd) == {}

\* Lines 90-96: the columns whose type changed to an incompatible one.
incompatible_type_cols(sd) ==
    {col \in DOMAIN sd.type_changes :
        ~are_types_compatible(sd.type_changes[col].previous,
                              sd.type_changes[col].current)}

\* DFComparator.compare_values
compare_values(cur, prev, keys, sd) ==
    LET current_len == Len(cur.rows)
        previous_len == Len(prev.rows)
        common_cols == Range(cur.columns)
                       \cap (Range(prev.columns) \ incompatible_type_cols(sd))
        f == UnchangedRowFilter(cur, prev, common_cols)
        pct == Round2(Len(f.current.rows), current_len)
    IN  IF current_len # previous_len
        THEN RowCountOnly(cur, prev)
        ELSE IF current_len = 0 /\ previous_len = 0
        THEN Outcome("none", "", ValueDiff(AllFields, 0, 0, 0, NoChanges),
                     cur, prev, FALSE, "empty")
        ELSE IF common_cols = {}
        \* drop_duplicates(subset=[]) finds no column to group by and raises
        \* before the tables are replaced: they keep the marker column
        THEN Outcome("ValueError", "", NoValueDiff,
                     AddMarker(cur, ORIGIN_CURRENT), AddMarker(prev, ORIGIN_PREVIOUS),
                     TRUE, "no_columns")
        ELSE IF keys # <<>>
        THEN KeyedDiff(f.current, f.previous, keys, current_len, previous_len, pct)
        ELSE Outcome("none", "",
                     ValueDiff(AllFields, previous_len, current_len, pct, NoChanges),
                     f.current, f.previous, TRUE, "no_keys")

\* ------------------------------------------------------------------------
\* generate_statistics
\* ------------------------------------------------------------------------
\* A flag that takes any change of the row count for a regression.
has_regression_any_row_change(sd, vd) ==
    \/ sd.removed_columns # {}
    \/ DOMAIN sd.type_changes # {}
    \/ ("row_count_change" \in vd.fields /\ vd.row_count_change.difference # 0)
    \/ ("columns_with_value_changes" \in vd.fields
        /\ DOMAIN vd.columns_with_value_changes # {})

\* Lines 174-179. A key the value diff lacks reads as its default.
has_regression(sd, vd) ==
    \/ sd.removed_columns # {}
    \/ DOMAIN sd.type_changes # {}
    \/ (IF "row_count_change" \in vd.fields
        THEN vd.row_count_change.difference ELSE 0) < 0
    \/ ("columns_with_value_changes" \in vd.fields
        /\ DOMAIN vd.columns_with_value_changes # {})

\* Lines 181-190, without the timestamp (the wall clock at the call).
Statistics(sd, vd) ==
    [schema_changes |-> sd,
     value_changes |-> vd,
     potential_regression |-> has_regression(sd, vd),
     summary |->
         [total_schema_issues |->
              Cardinality(sd.removed_columns) + Cardinality(DOMAIN sd.type_changes),
          columns_with_value_changes |->
              IF "columns_with_value_changes" \in vd.fields
              THEN Cardinality(DOMAIN vd.columns_with_value_changes) ELSE 0]]

\* ------------------------------------------------------------------------
\* The comparator as a state machine
\* ------------------------------------------------------------------------
NoException == [exc |-> "none", key |-> ""]

\* The caller's table objects after a call of compare_values: while the
\* comparator still holds them, lines 99-100 write the marker column into them.
MarkedCaller(df, o, v) == IF held /\ o.marked THEN AddMarker(df, v) ELSE df

\* Lines 102-103 bind self.current / self.previous to new tables.
StillHeld(o) == held /\ (~o.marked \/ o.path = "no_columns")

\* The tables the comparator holds and the caller's two table objects.
Held == [current |-> current, previous |-> previous,
         df_current |-> df_current, df_previous |-> df_previous]

\* DFComparator.compare_schema
CompareSchema ==
    /\ schema_diff' = <<compare_schema(current, previous)>>
    /\ op' = "compare_schema"
    /\ raised' = NoException
    /\ pre' = Held
    /\ UNCHANGED <<current, previous, primary_keys, df_current, df_previous, held,
                   stats, path, ncalls, first_stats, dtype1, dtype2, compatible>>

\* DFComparator.generate_statistics
GenerateStatistics ==
    /\ LET sd == compare_schema(current, previous)
           o == compare_values(current, previous, primary_keys, sd)
           result == IF o.raised = "none" THEN <<Statistics(sd, o.ret)>> ELSE <<>>
       IN
        /\ current' = o.current
        /\ previous' = o.previous
        /\ df_current' = MarkedCaller(df_current, o, ORIGIN_CURRENT)
        /\ df_previous' = MarkedCaller(df_previous, o, ORIGIN_PREVIOUS)
        /\ held' = StillHeld(o)
        /\ schema_diff' = <<sd>>
        /\ stats' = result
        /\ raised' = [exc |-> o.raised, key |-> o.key]
        /\ path' = o.path
        /\ first_stats' = IF ncalls = 0
                          THEN <<[exc |-> o.raised, stats |-> result]>>
                          ELSE first_stats
    /\ ncalls' = IF ncalls < 2 THEN ncalls + 1 ELSE ncalls
    /\ op' = "generate_statistics"
    /\ pre' = Held
    /\ UNCHANGED <<primary_keys, dtype1, dtype2, compatible>>

\* ------------------------------------------------------------------------
\* The tables a comparator is constructed with
\* ------------------------------------------------------------------------
Table(cols, dt, rows) == [columns |-> cols, dtypes |-> dt, index |-> <<>>, rows |-> rows]

SeqsUpTo(S, n) == UNION {[1..k -> S] : k \in 0..n}

\* Value family: both tables have the columns id, a, b with the same types;
\* the rows vary. The previous table's rows are listed in one fixed order
\* (the current table's in every order). Without a key no column is compared,
\* and the tables are one row shorter.
ValueCols == <<"id", "a", "b">>
ValueTypes == [c \in {"id", "a", "b"} |->
                  IF c = "a" THEN T_float64 ELSE T_int64]
ValueRows == {r \in [id : {1, 2}, a : {NA, 1}, b : {1, 2}] : r.id = 2 => r.b = 1}
RowRank(r) == 100 * r.id + 10 * r.a + r.b
Ordered(rows) == \A i \in 1..(Len(rows) - 1) : RowRank(rows[i]) <= RowRank(rows[i + 1])

InitValueFamily ==
    \E keys \in {<<>>, <<"id">>} :
        LET n == IF keys = <<>> THEN MaxRows - 1 ELSE MaxRows IN
        /\ primary_keys = keys
        /\ \E rows \in SeqsUpTo(ValueRows, n) :
              current = Table(ValueCols, ValueTypes, rows)
        /\ \E rows \in {r \in SeqsUpTo(ValueRows, n) : Ordered(r)} :
              previous = Table(ValueCols, ValueTypes, rows)

\* Duplicate-key family: one row more, under the key id. Every current row
\* has b = 1; every previous row of key 1 has b = 2.
InitDuplicateKeyFamily ==
    /\ primary_keys = <<"id">>
    /\ \E rows \in [1..(MaxRows + 1) -> {r \in ValueRows : r.b = 1}] :
          current = Table(ValueCols, ValueTypes, rows)
    /\ \E rows \in {r \in [1..(MaxRows + 1) -> {q \in ValueRows : q.id = 1 => q.b = 2}] :
                       Ordered(r)} :
          previous = Table(ValueCols, ValueTypes, rows)

\* Type family: one row each, and the current table's column b has changed
\* its type.
InitTypeFamily ==
    /\ \E r \in ValueRows, t \in {T_float64, T_Int64, T_object} :
          current = Table(ValueCols, [ValueTypes EXCEPT !["b"] = t], <<r>>)
    /\ \E r \in ValueRows : previous = Table(ValueCols, ValueTypes, <<r>>)
    /\ primary_keys \in {<<>>, <<"id">>}

\* Schema family: the columns, their order and their types vary; each table
\* has at most one row, and every cell is 1.
SchemaColsPrevious == {<<"id">>, <<"id", "a">>, <<"id", "a", "b">>, <<"id", "A">>}
SchemaColsCurrent ==
    {<<"id">>, <<"id", "a">>, <<"a", "id">>, <<"id", "a", "b">>, <<"b", "a", "id">>,
     <<"id", "A">>, <<"id", "a", "A">>, <<"b", "A", "id">>}
SchemaTable(cols, dt, n) ==
    Table(cols, dt, [i \in 1..n |-> [c \in Range(cols) |-> 1]])

InitSchemaFamily ==
    /\ \E cols \in SchemaColsCurrent, n \in {0, 1} :
          \E dt \in [Range(cols) -> {T_int64, T_float64, T_object}] :
              /\ dt["id"] = T_int64
              /\ current = SchemaTable(cols, dt, n)
    /\ \E cols \in SchemaColsPrevious, n \in {0, 1} :
          previous = SchemaTable(cols, [c \in Range(cols) |-> T_int64], n)
    /\ primary_keys \in {<<>>, <<"id">>, <<"a">>, <<"id", "a">>, <<"zz">>}

\* DFComparator.__init__: the comparator holds the caller's two tables
Init ==
    /\ InitValueFamily \/ InitDuplicateKeyFamily \/ InitTypeFamily \/ InitSchemaFamily
    /\ df_current = current
    /\ df_previous = previous
    /\ held = TRUE
    /\ schema_diff = <<>>
    /\ stats = <<>>
    /\ raised = NoException
    /\ op = "init"
    /\ path = "none"
    /\ pre = Held
    /\ ncalls = 0
    /\ first_stats = <<>>
    /\ dtype1 = <<>>
    /\ dtype2 = <<>>
    /\ compatible = FALSE

Next == CompareSchema \/ GenerateStatistics

Spec == Init /\ [][Next]_vars

\* ------------------------------------------------------------------------
\* The classifier on its own
\* ------------------------------------------------------------------------
InitTypes ==
    /\ current = Table(<<>>, <<>>, <<>>)
    /\ previous = Table(<<>>, <<>>, <<>>)
    /\ primary_keys = <<>>
    /\ df_current = current
    /\ df_previous = previous
    /\ held = TRUE
    /\ schema_diff = <<>>
    /\ stats = <<>>
    /\ raised = NoException
    /\ op = "init"
    /\ path = "none"
    /\ pre = Held
    /\ ncalls = 0
    /\ first_stats = <<>>
    /\ dtype1 = <<>>
    /\ dtype2 = <<>>
    /\ compatible = FALSE

\* One call of _are_types_compatible
Classify ==
    /\ \E d1 \in Descriptors, d2 \in Descriptors :
          /\ dtype1' = d1
          /\ dtype2' = d2
          /\ compatible' = are_types_compatible(d1, d2)
    /\ op' = "are_types_compatible"
    /\ UNCHANGED <<current, previous, primary_keys, df_current, df_previous, held,
                   schema_diff, stats, raised, path, pre, ncalls, first_stats>>

NextTypes == Classify

SpecTypes == InitTypes /\ [][NextTypes]_vars

\* ------------------------------------------------------------------------
\* Properties
\* ------------------------------------------------------------------------
\* The last call was generate_statistics and it returned.
Returned == op = "generate_statistics" /\ raised.exc = "none"

ColumnSet(t) == Range(t.columns)

\* The columns of both tables whose (previous, current) types the classifier
\* accepts.
ComparableCols(cur, prev) ==
    {c \in ColumnSet(cur) \cap ColumnSet(prev) :
        cur.dtypes[c] = prev.dtypes[c]
        \/ are_types_compatible(prev.dtypes[c], cur.dtypes[c])}

\* C1: whenever generate_statistics returns, potential_regression is true
\* exactly when a column was removed, or some type changed, or the row count
\* went down, or some column has value changes; a lower row count alone gives
\* true, and with no removed column, no type change and no value change a
\* table that did not shrink gives false.
C1_RegressionFlag ==
    Returned =>
        LET st == stats[1]
            sd == st.schema_changes
            vd == st.value_changes
            ncur == Len(pre.current.rows)
            nprev == Len(pre.previous.rows)
            removed == ColumnSet(pre.previous) \ ColumnSet(pre.current)
            retyped == {c \in ColumnSet(pre.current) \cap ColumnSet(pre.previous) :
                           pre.current.dtypes[c] # pre.previous.dtypes[c]}
            changed == DOMAIN vd.columns_with_value_changes
        IN  /\ st.potential_regression <=>
                   \/ sd.removed_columns # {}
                   \/ DOMAIN sd.type_changes # {}
                   \/ vd.row_count_change.difference < 0
                   \/ changed # {}
            /\ ncur < nprev => st.potential_regression
            /\ (removed = {} /\ retyped = {} /\ changed = {} /\ ncur >= nprev)
                   => ~st.potential_regression

\* C1 witness: a table that gained a row and a column and nothing else, and
\* no regression flagged.
C1_Witness ==
    /\ Returned
    /\ Len(pre.current.rows) > Len(pre.previous.rows)
    /\ ColumnSet(pre.current) \ ColumnSet(pre.previous) # {}
    /\ ~stats[1].potential_regression

\* C5: compare_schema returns as added the column names of current that
\* previous lacks, as removed those of previous that current lacks (by exact
\* name, whatever the column order), as type changes exactly the common
\* columns whose descriptors differ, each with both descriptors, and the
\* two column counts.
C5_SchemaDiff ==
    (op \in {"compare_schema", "generate_statistics"}) =>
        LET sd == schema_diff[1]
            cur == pre.current
            prev == pre.previous
        IN  /\ \A c \in ColumnSet(cur) \cup ColumnSet(prev) \cup sd.added_columns
                        \cup sd.removed_columns \cup DOMAIN sd.type_changes :
                  /\ c \in sd.added_columns
                       <=> (c \in ColumnSet(cur) /\ c \notin ColumnSet(prev))
                  /\ c \in sd.removed_columns
                       <=> (c \in ColumnSet(prev) /\ c \notin ColumnSet(cur))
                  /\ c \in DOMAIN sd.type_changes
                       <=> /\ c \in ColumnSet(cur)
                           /\ c \in ColumnSet(prev)
                           /\ cur.dtypes[c] # prev.dtypes[c]
            /\ \A c \in DOMAIN sd.type_changes :
                  /\ sd.type_changes[c].previous = prev.dtypes[c]
                  /\ sd.type_changes[c].current = cur.dtypes[c]
            /\ sd.added_columns \cap sd.removed_columns = {}
            /\ sd.total_columns_current = Len(cur.columns)
            /\ sd.total_columns_previous = Len(prev.columns)

\* C5 witness: a column renamed from a to A (one added, one removed), the
\* columns in another order, and a compatible type change recorded.
C5_Witness ==
    /\ op = "compare_schema"
    /\ "A" \in schema_diff[1].added_columns
    /\ "a" \in schema_diff[1].removed_columns
    /\ \E c \in DOMAIN schema_diff[1].type_changes :
          are_types_compatible(schema_diff[1].type_changes[c].previous,
                               schema_diff[1].type_changes[c].current)

\* C6: when the row counts differ compare_values returns row_count_change
\* alone, with previous, current and difference = current - previous, and
\* the two tables the comparator holds are as they were.
C6_RowCountShortCircuit ==
    (op = "generate_statistics"
     /\ Len(pre.current.rows) # Len(pre.previous.rows)) =>
        /\ raised.exc = "none"
        /\ LET vd == stats[1].value_changes IN
            /\ vd.fields = {"row_count_change"}
            /\ vd.row_count_change.previous = Len(pre.previous.rows)
            /\ vd.row_count_change.current = Len(pre.current.rows)
            /\ vd.row_count_change.difference =
                   Len(pre.current.rows) - Len(pre.previous.rows)
        /\ current = pre.current
        /\ previous = pre.previous

\* C6 witness: a keyed comparison of a two-row table with a one-row table.
C6_Witness ==
    /\ op = "generate_statistics"
    /\ primary_keys # <<>>
    /\ Len(pre.current.rows) = 2
    /\ Len(pre.previous.rows) = 1
    /\ stats # <<>>

\* The family a descriptor belongs to, read off its name.
FamilyOf(d) ==
    IF d \in {T_int64, T_float64, T_bool, T_uint8, T_Int64} THEN "numeric"
    ELSE IF d \in {T_object, T_string, T_String, T_str} THEN "textual"
    ELSE IF d \in {T_datetime64, T_Timestamp} THEN "temporal"
    ELSE "other"

\* C10: the classifier answers compatible exactly when both descriptors are
\* numeric, or both textual, or both temporal, or they are equal once
\* lowercased; descriptors of different families are incompatible; and
\* swapping the arguments does not change the answer.
C10_Classifier ==
    (op = "are_types_compatible") =>
        /\ compatible <=>
               \/ (FamilyOf(dtype1) = FamilyOf(dtype2) /\ FamilyOf(dtype1) # "other")
               \/ Lower(dtype1) = Lower(dtype2)
        /\ compatible <=>
               \/ AnyIn(numeric_types, Lower(dtype1)) /\ AnyIn(numeric_types, Lower(dtype2))
               \/ AnyIn(string_types, Lower(dtype1)) /\ AnyIn(string_types, Lower(dtype2))
               \/ AnyIn(datetime_types, Lower(dtype1)) /\ AnyIn(datetime_types, Lower(dtype2))
               \/ Lower(dtype1) = Lower(dtype2)
        /\ compatible = are_types_compatible(dtype2, dtype1)

\* C10 witness: a capitalised integer type against a float type, compatible.
C10_Witness ==
    /\ op = "are_types_compatible"
    /\ dtype1 = T_Int64
    /\ dtype2 = T_float64
    /\ compatible

\* The columns a declared key names that a table lacks.
AbsentKeys(t) ==
    {primary_keys[k] : k \in 1..Len(primary_keys)} \ (ColumnSet(t) \cup Range(t.index))

\* C2: whenever a key is declared and one of its columns is absent from the
\* current or from the previous table, the comparison raises an error that
\* names an absent column and returns no diff, whatever the row counts.
C2_MissingKeyRaises ==
    (op = "generate_statistics"
     /\ AbsentKeys(pre.current) \cup AbsentKeys(pre.previous) # {}) =>
        /\ raised.exc # "none"
        /\ raised.key \in AbsentKeys(pre.current) \cup AbsentKeys(pre.previous)
        /\ stats = <<>>

\* The same multiset of rows.
IsPermutation(s, t) ==
    /\ Len(s) = Len(t)
    /\ \A r \in Range(s) \cup Range(t) :
          Cardinality({i \in 1..Len(s) : s[i] = r})
              = Cardinality({i \in 1..Len(t) : t[i] = r})

\* Every order of the rows of s.
RowOrders(s) ==
    {[i \in 1..Len(s) |-> s[p[i]]] :
        p \in {q \in [1..Len(s) -> 1..Len(s)] :
                  \A i, j \in 1..Len(s) : q[i] = q[j] => i = j}}

\* What compare_values gives for two tables under the declared key: the
\* exception and the returned diff.
ValueResult(cur, prev) ==
    LET o == compare_values(cur, prev, primary_keys, compare_schema(cur, prev))
    IN  [exc |-> o.raised, ret |-> o.ret]

\* What the last call of generate_statistics got from compare_values.
LastValueResult ==
    [exc |-> raised.exc,
     ret |-> IF stats # <<>> THEN stats[1].value_changes ELSE NoValueDiff]

SameSchema(cur, prev) ==
    /\ ColumnSet(cur) = ColumnSet(prev)
    /\ \A c \in ColumnSet(cur) : cur.dtypes[c] = prev.dtypes[c]

\* C3: two tables with the same columns and types, holding the key columns,
\* whose rows are the same multiset in any two orders: the value diff
\* returns difference 0, no column with value changes and a row change of
\* 0 percent, and so it does for every other order of the previous rows.
C3_ReorderedRows ==
    (op = "generate_statistics"
     /\ SameSchema(pre.current, pre.previous)
     /\ AbsentKeys(pre.current) = {}
     /\ pre.current.index = <<>>
     /\ IsPermutation(pre.current.rows, pre.previous.rows)) =>
        /\ raised.exc = "none"
        /\ LET vd == stats[1].value_changes IN
            /\ vd.row_count_change.difference = 0
            /\ vd.fields = AllFields
            /\ DOMAIN vd.columns_with_value_changes = {}
            /\ vd.percentage_row_change = 0
        /\ \A rows \in RowOrders(pre.previous.rows) :
              ValueResult(pre.current, [pre.previous EXCEPT !.rows = rows])
                  = LastValueResult

\* C3 witness: two rows under a key, listed in opposite orders.
C3_Witness ==
    /\ Returned
    /\ primary_keys = <<"id">>
    /\ Len(pre.current.rows) = 2
    /\ pre.current.rows # pre.previous.rows
    /\ pre.current.rows[1] # pre.current.rows[2]
    /\ IsPermutation(pre.current.rows, pre.previous.rows)
    /\ stats[1].value_changes.percentage_row_change = 0

\* The key of a row.
KeyOf(r) == [k \in 1..Len(primary_keys) |-> r[primary_keys[k]]]

UniqueKeys(rows) ==
    \A i, j \in 1..Len(rows) : KeyOf(rows[i]) = KeyOf(rows[j]) => i = j

\* The number of current rows whose value in column c is not the value of the
\* previous row with the same key (two missing values are the same value).
ChangedKeys(cur, prev, c) ==
    Cardinality({i \in 1..Len(cur.rows) :
                    \E j \in 1..Len(prev.rows) :
                        /\ KeyOf(prev.rows[j]) = KeyOf(cur.rows[i])
                        /\ prev.rows[j][c] # cur.rows[i][c]})

\* p hundredths is m / n * 100 rounded to two decimals.
IsPercentage(p, m, n) ==
    LET d == p * n - 10000 * m IN 2 * d <= n /\ -(2 * d) <= n

\* The tables C4 is about: equal non-zero row counts, the key columns in
\* both tables, each key value once per table and in both tables, and no
\* incompatible type change.
C4_Applies ==
    /\ op = "generate_statistics"
    /\ primary_keys # <<>>
    /\ pre.current.index = <<>>
    /\ AbsentKeys(pre.current) \cup AbsentKeys(pre.previous) = {}
    /\ Len(pre.current.rows) = Len(pre.previous.rows)
    /\ Len(pre.current.rows) > 0
    /\ UniqueKeys(pre.current.rows)
    /\ UniqueKeys(pre.previous.rows)
    /\ {KeyOf(pre.current.rows[i]) : i \in 1..Len(pre.current.rows)}
           = {KeyOf(pre.previous.rows[i]) : i \in 1..Len(pre.previous.rows)}
    /\ ComparableCols(pre.current, pre.previous)
           = ColumnSet(pre.current) \cap ColumnSet(pre.previous)

\* C4: on such tables, a non-key common column c has an entry in
\* columns_with_value_changes exactly when the number m of keys whose
\* c-values differ is not 0, the entry has changed_rows = m and percentage
\* = round(m / current_len * 100, 2), no other column has an entry, and the
\* result is the same for every order of the previous rows.
C4_ChangedRowsPerColumn ==
    C4_Applies =>
        /\ raised.exc = "none"
        /\ LET changes == stats[1].value_changes.columns_with_value_changes
               n == Len(pre.current.rows)
               cols == (ColumnSet(pre.current) \cap ColumnSet(pre.previous))
                       \ Range(primary_keys)
           IN
            /\ DOMAIN changes \subseteq cols
            /\ \A c \in cols :
                  LET m == ChangedKeys(pre.current, pre.previous, c) IN
                  /\ c \in DOMAIN changes <=> m # 0
                  /\ m # 0 =>
                        /\ changes[c].changed_rows = m
                        /\ IsPercentage(changes[c].percentage, m, n)
        /\ \A rows \in RowOrders(pre.previous.rows) :
              ValueResult(pre.current, [pre.previous EXCEPT !.rows = rows])
                  = LastValueResult

\* C4 witness: two keyed rows in opposite orders in the two tables, one row
\* changed in column a and the other in column b: one changed row and 50
\* percent for each column.
C4_Witness ==
    /\ C4_Applies
    /\ path = "merge"
    /\ Len(pre.current.rows) = 2
    /\ LET changes == stats[1].value_changes.columns_with_value_changes IN
        /\ DOMAIN changes = {"a", "b"}
        /\ changes["a"] = [changed_rows |-> 1, percentage |-> 5000]
        /\ changes["b"] = [changed_rows |-> 1, percentage |-> 5000]

\* C7: for every pair of tables and every key, duplicated rows and keys
\* included, listing the rows of the current table or of the previous table
\* in another order leaves the result of compare_values unchanged.
C7_RowOrderIrrelevant ==
    (op = "generate_statistics" /\ pre.current.index = <<>>) =>
        /\ \A rows \in RowOrders(pre.current.rows) :
              ValueResult([pre.current EXCEPT !.rows = rows], pre.previous)
                  = LastValueResult
        /\ \A rows \in RowOrders(pre.previous.rows) :
              ValueResult(pre.current, [pre.previous EXCEPT !.rows = rows])
                  = LastValueResult

\* C8: a second call of generate_statistics on the same comparator returns
\* what the first call returned, and raises only if the first call did.
C8_SecondCallSame ==
    (op = "generate_statistics" /\ ncalls = 2) =>
        [exc |-> raised.exc, stats |-> stats] = first_stats[1]

\* The positions of the rows of t that no row of u equals on the columns cs.
Unmatched(t, u, cs) ==
    {i \in 1..Len(t.rows) :
        \A j \in 1..Len(u.rows) : Project(u.rows[j], cs) # Project(t.rows[i], cs)}

\* C9: for equal non-zero row counts the filter takes from each side exactly
\* the rows that the other side holds identically (on the comparable common
\* columns), so a row repeated within one side and absent from the other
\* stays, and percentage_row_change = round(k / n * 100, 2) with k the
\* number of current rows, counted with multiplicity, that previous lacks.
C9_FilterKeepsUnmatchedRows ==
    (Returned
     /\ pre.current.index = <<>>
     /\ Len(pre.current.rows) = Len(pre.previous.rows)
     /\ Len(pre.current.rows) > 0) =>
        LET cs == ComparableCols(pre.current, pre.previous)
            keepc == Unmatched(pre.current, pre.previous, cs)
            keepp == Unmatched(pre.previous, pre.current, cs)
        IN  /\ [i \in 1..Len(current.rows) |-> Project(current.rows[i], cs)]
                   = PickRows([i \in 1..Len(pre.current.rows) |->
                                  Project(pre.current.rows[i], cs)], keepc, 1)
            /\ [i \in 1..Len(previous.rows) |-> Project(previous.rows[i], cs)]
                   = PickRows([i \in 1..Len(pre.previous.rows) |->
                                  Project(pre.previous.rows[i], cs)], keepp, 1)
            /\ stats[1].value_changes.percentage_row_change
                   = Round2(Cardinality(keepc), Len(pre.current.rows))

\* The common columns whose type changed across families (numeric, textual,
\* temporal), read off the descriptors' names.
CrossFamilyCols(cur, prev) ==
    {c \in ColumnSet(cur) \cap ColumnSet(prev) :
        /\ cur.dtypes[c] # prev.dtypes[c]
        /\ ~(FamilyOf(cur.dtypes[c]) = FamilyOf(prev.dtypes[c])
             /\ FamilyOf(cur.dtypes[c]) # "other")}

\* C11: for equal non-zero row counts, a common column whose type changed
\* across families never has an entry in columns_with_value_changes and is in
\* no held table after the call, and tables whose rows agree on the other
\* common columns give percentage_row_change 0 and no value change; every
\* other common column is compared: under a key that holds each value once
\* per table and the same values in both, such a non-key column, a column
\* with a compatible type change included, has an entry exactly when some
\* key's values differ in it.
C11_IncompatibleColumnsIgnored ==
    (Returned
     /\ pre.current.index = <<>>
     /\ Len(pre.current.rows) = Len(pre.previous.rows)
     /\ Len(pre.current.rows) > 0) =>
        LET inc == CrossFamilyCols(pre.current, pre.previous)
            used == (ColumnSet(pre.current) \cap ColumnSet(pre.previous)) \ inc
            vc == stats[1].value_changes
            cur_used == [i \in 1..Len(pre.current.rows) |-> Project(pre.current.rows[i], used)]
            prev_used == [i \in 1..Len(pre.previous.rows) |-> Project(pre.previous.rows[i], used)]
        IN  /\ DOMAIN vc.columns_with_value_changes \cap inc = {}
            /\ (ColumnSet(current) \cup ColumnSet(previous)) \cap inc = {}
            /\ IsPermutation(cur_used, prev_used) =>
                   /\ vc.percentage_row_change = 0
                   /\ DOMAIN vc.columns_with_value_changes = {}
            /\ (/\ primary_keys # <<>>
                /\ UniqueKeys(pre.current.rows)
                /\ UniqueKeys(pre.previous.rows)
                /\ {KeyOf(pre.current.rows[i]) : i \in 1..Len(pre.current.rows)}
                       = {KeyOf(pre.previous.rows[i]) : i \in 1..Len(pre.previous.rows)}) =>
                   \A c \in used \ Range(primary_keys) :
                       c \in DOMAIN vc.columns_with_value_changes
                           <=> ChangedKeys(pre.current, pre.previous, c) > 0

\* C11 witness: column b went from int64 to object and is the only column in
\* which the two rows of key 1 differ; the row is filtered as unchanged.
C11_Witness ==
    /\ Returned
    /\ primary_keys = <<"id">>
    /\ pre.current.index = <<>>
    /\ pre.current.dtypes["b"] = T_object
    /\ pre.previous.dtypes["b"] = T_int64
    /\ Len(pre.current.rows) = 1
    /\ Len(pre.previous.rows) = 1
    /\ pre.current.rows[1] = [id |-> 1, a |-> 1, b |-> 1]
    /\ pre.previous.rows[1] = [id |-> 1, a |-> 1, b |-> 2]
    /\ stats[1].value_changes.percentage_row_change = 0
    /\ DOMAIN stats[1].value_changes.columns_with_value_changes = {}

\* The same two rows with b gone from int64 to float64: b is compared and
\* its change reported.
C11_WitnessCompatible ==
    /\ Returned
    /\ primary_keys = <<"id">>
    /\ pre.current.index = <<>>
    /\ pre.current.dtypes["b"] = T_float64
    /\ pre.previous.dtypes["b"] = T_int64
    /\ Len(pre.current.rows) = 1
    /\ Len(pre.previous.rows) = 1
    /\ pre.current.rows[1] = [id |-> 1, a |-> 1, b |-> 1]
    /\ pre.previous.rows[1] = [id |-> 1, a |-> 1, b |-> 2]
    /\ stats[1].value_changes.percentage_row_change = 10000
    /\ DOMAIN stats[1].value_changes.columns_with_value_changes = {"b"}

\* The keys of the rows of a table, row by row.
KeysOf(t) == [i \in 1..Len(t.rows) |-> KeyOf(t.rows[i])]

\* The number of pairs of a previous and a current row with the same key
\* whose values in column c differ (two missing values do not differ).
DifferingPairs(cur, prev, c) ==
    Cardinality({p \in (1..Len(prev.rows)) \X (1..Len(cur.rows)) :
                    /\ KeyOf(prev.rows[p[1]]) = KeyOf(cur.rows[p[2]])
                    /\ prev.rows[p[1]][c] # cur.rows[p[2]][c]})

C13_MarkerIsTemporary ==
    Returned =>
        /\ "df_origin" \notin ColumnSet(current) \cup ColumnSet(previous)
        /\ "df_origin" \notin ColumnSet(df_current) \cup ColumnSet(df_previous)
        /\ ColumnSet(df_current) = ColumnSet(pre.df_current)
        /\ ColumnSet(df_previous) = ColumnSet(pre.df_previous)

\* C14: whenever generate_statistics returns, every entry of
\* columns_with_value_changes has 1 <= changed_rows <= the row count of the
\* current table the call was made on, and 0 < percentage <= 100, on the
\* direct path and on the merge path, with keys duplicated or not.
C14_ChangedRowsBounded ==
    Returned =>
        LET changes == stats[1].value_changes.columns_with_value_changes
        IN  \A c \in DOMAIN changes :
                /\ 1 <= changes[c].changed_rows
                /\ changes[c].changed_rows <= Len(pre.current.rows)
                /\ 0 < changes[c].percentage
                /\ changes[c].percentage <= 10000

\* The calls C15 is about: identical schemas, equal non-zero row counts, a
\* declared key whose columns are in both tables.
C15_Applies ==
    /\ Returned
    /\ primary_keys # <<>>
    /\ pre.current.index = <<>>
    /\ AbsentKeys(pre.current) \cup AbsentKeys(pre.previous) = {}
    /\ SameSchema(pre.current, pre.previous)
    /\ Len(pre.current.rows) = Len(pre.previous.rows)
    /\ Len(pre.current.rows) > 0

\* C15: on such a call, if percentage_row_change > 0 then
\* columns_with_value_changes is not empty and potential_regression is true.
C15_NoChangeUnreported ==
    (C15_Applies /\ stats[1].value_changes.percentage_row_change > 0) =>
        /\ DOMAIN stats[1].value_changes.columns_with_value_changes # {}
        /\ stats[1].potential_regression

\* What does hold on such a call: if the filter leaves a current row and a
\* previous row with the same key, then columns_with_value_changes is not
\* empty and potential_regression is true.
C15_SharedKeyChangeReported ==
    (C15_Applies
     /\ Range(KeysOf(current)) \cap Range(KeysOf(previous)) # {}) =>
        /\ stats[1].value_changes.percentage_row_change > 0
        /\ DOMAIN stats[1].value_changes.columns_with_value_changes # {}
        /\ stats[1].potential_regression

\* Such a call: the key 1 is twice on both sides and the filter leaves one
\* current and two previous rows of it, next to a current row of key 2 that
\* the previous table lacks; a value change is reported.
C15_SharedKeyReached ==
    /\ C15_Applies
    /\ path = "merge"
    /\ Len(pre.current.rows) = 3
    /\ KeysOf(current) = << <<1>>, <<2>> >>
    /\ KeysOf(previous) = << <<1>>, <<1>> >>
    /\ DOMAIN stats[1].value_changes.columns_with_value_changes # {}
    /\ stats[1].potential_regression

====
